---- MODULE Spec2Model ----
(***************************************************************************)
(* A state-machine model of SiLLM's model wrapper (sillm/llm.py) and of    *)
(* its trainable LoRA wrapper (sillm/training/lora.py).                    *)
(*                                                                         *)
(* Four specifications share the module:                                   *)
(*   Spec      the LoRA lifecycle of one TrainableLoRA wrapper: init_lora, *)
(*             merge_and_unload_lora, save_adapters, save_checkpoint and   *)
(*             the optimizer's parameter update;                           *)
(*   SpecQuant the lifecycle together with LLM.quantize and                *)
(*             LLM.dequantize;                                             *)
(*   SpecGen   one run of the generator LLM.generate;                      *)
(*   SpecTrain one run of TrainableLoRA.train.                             *)
(*                                                                         *)
(* Tensors are abstracted to one integer per tensor plus its shape; the    *)
(* module tree is a function from dotted paths (sequences of components)   *)
(* to the linear projection found there, with the LoRALinear wrapper of a  *)
(* projection kept in the same entry.                                      *)
(***************************************************************************)
EXTENDS Integers, Sequences, FiniteSets, TLC

VARIABLES
    model,          \* the module tree: path -> projection (and its LoRALinear wrapper)
    _lora,          \* TrainableLoRA._lora: None (<<>>) or <<the LoRA configuration>>
    _lora_modules,  \* TrainableLoRA._lora_modules: keys of the adapters, in tree order
    training,       \* the model's training-mode flag (Module.train)
    _quantization,  \* LLM._quantization: None (<<>>) or <<{group_size, bits}>>
    quant_excluded, \* history: the `excluded` argument of the quantize call in force
    files,          \* the adapter files written so far
    lastOp,         \* the operation the last step ran, with its arguments
    error,          \* the exception the last operation ended with, or NoError
    pre,            \* history: structure of the tree when init_lora last adapted it
    updates,        \* number of optimizer updates applied so far (bounded)
    gen,            \* the state of one LLM.generate run
    trn             \* the state of one TrainableLoRA.train run

loraVars == <<model, _lora, _lora_modules, training, _quantization, quant_excluded, files,
              lastOp, error, pre, updates>>
vars == <<model, _lora, _lora_modules, training, _quantization, quant_excluded, files,
          lastOp, error, pre, updates, gen, trn>>

None == <<>>
NoError == "NoError"
NoName == <<>>

----------------------------------------------------------------------------
(* Bounds of the model                                                     *)

MaxUpdates == 1
MaxFiles == 1
MaxNumTokens == 3
MaxFlush == 3
MaxEpochs == 2
MaxIterations == 2
MaxEvalSteps == 2

(* Program constants                                                       *)
DefaultRank == 8
DefaultAlpha == 16
DefaultScale == 10
GateWidth == 8
PackWidth == 32

----------------------------------------------------------------------------
(* The module tree                                                         *)

P_wq == <<"layers", "0", "attention", "wq">>
P_wv == <<"layers", "0", "attention", "wv">>
P_gate == <<"layers", "0", "feed_forward", "gate">>
P_out == <<"output">>

\* named_modules() order of the projections
PathOrder == <<P_wq, P_wv, P_gate, P_out>>

\* the trees the wrapper is constructed over
TreeDomains == { {P_wq, P_wv, P_out}, {P_wq, P_gate}, {P_gate, P_out} }

OutDims(p) == IF p = P_gate THEN GateWidth ELSE IF p = P_out THEN 32 ELSE 16
InDims(p) == 64
HasBias(p) == p = P_out
InitWeight(p) == IF p = P_wq THEN 5 ELSE IF p = P_wv THEN 6 ELSE 7

\* weights a freshly constructed nn.Linear may hold (random initialisation)
FreshWeights == {0, 9}
\* values the random initialisation of lora_a may produce
FreshLoraA == {1}
\* changes one optimizer update may apply to a trainable tensor
Deltas == {-1, 1}

Bits == {4, 8}
GroupSizes == {64}

\* mx.quantize / mx.dequantize on the abstract weight: the quantization step
\* grows as the bit width shrinks, so quantization is lossy
QStep(bits) == PackWidth \div bits
QuantizeW(w, bits) == w \div QStep(bits)
DequantizeW(q, bits) == q * QStep(bits)

\* nn.Linear(input_dims, output_dims, bias): a new, unnamed, trainable layer
NewLinear(input_dims, output_dims, bias, w) ==
    [kind |-> "Linear", name |-> NoName, out |-> output_dims, cols |-> input_dims,
     bias |-> bias, group_size |-> 0, bits |-> 0, weight |-> w, frozen |-> FALSE,
     lora |-> FALSE, lname |-> NoName, rank |-> 0, in_dims |-> 0, out_dims |-> 0,
     lora_a |-> 0, lora_b |-> 0, lscale |-> 0]

\* nn.QuantizedLinear.from_linear(linear, group_size, bits): a new, unnamed,
\* frozen layer holding the packed quantized weight of `linear`
QuantizedFromLinear(linear, group_size, bits) ==
    [linear EXCEPT !.kind = "QuantizedLinear", !.name = NoName,
                   !.cols = (linear.cols * bits) \div PackWidth,
                   !.group_size = group_size, !.bits = bits,
                   !.weight = QuantizeW(linear.weight, bits), !.frozen = TRUE]

\* _update_names(): every module is named by its path; the projection inside a
\* LoRALinear sits at <path>.linear
UpdateNames(tree) ==
    [p \in DOMAIN tree |->
        IF tree[p].lora
        THEN [tree[p] EXCEPT !.lname = p, !.name = p \o <<"linear">>]
        ELSE [tree[p] EXCEPT !.name = p]]

\* the tree llama.Model(args) builds, after _update_names()
PlainTree(dom) ==
    UpdateNames([p \in dom |-> NewLinear(InDims(p), OutDims(p), HasBias(p), InitWeight(p))])

\* linear_class_predicate of LLM.quantize, for a non-None `excluded`
LinearClassPredicate(m, excluded) ==
    m.kind = "Linear" /\ m.out # GateWidth /\ m.name \notin excluded

\* nn.QuantizedLinear.quantize_module: every leaf module the predicate accepts
\* is replaced by its quantized equivalent (the projection inside a LoRALinear
\* is a leaf module)
QuantizeModule(tree, group_size, bits, excluded) ==
    [p \in DOMAIN tree |->
        IF LinearClassPredicate(tree[p], excluded)
        THEN QuantizedFromLinear(tree[p], group_size, bits)
        ELSE tree[p]]

\* the sub-sequence of `order` whose paths are in `keep`
RECURSIVE SelectKeys(_, _)
SelectKeys(order, keep) ==
    IF order = <<>> THEN <<>>
    ELSE IF Head(order) \in keep
         THEN <<Head(order)>> \o SelectKeys(Tail(order), keep)
         ELSE SelectKeys(Tail(order), keep)

Range(s) == {s[i] : i \in DOMAIN s}

----------------------------------------------------------------------------
(* LoRALinear                                                              *)

\* LoRALinear.from_linear: the adapter wrapping `linear`. It reads linear.name,
\* so it raises AttributeError on a layer that was never named.
FromLinearRaises(linear) == linear.name = NoName

FromLinear(linear, rank, alpha, scale, a0) ==
    [linear EXCEPT
        !.lora = TRUE,
        !.lname = linear.name,
        !.rank = rank,
        !.in_dims = IF linear.kind = "QuantizedLinear"
                    THEN linear.cols * (PackWidth \div linear.bits)
                    ELSE linear.cols,
        !.out_dims = linear.out,
        !.lora_a = a0,
        !.lora_b = 0,
        !.lscale = scale * (alpha \div rank)]

\* the weight LoRALinear.merge computes (lines 126-138): the dequantized (or
\* plain) weight plus scale * transpose(A @ B)
MergedWeight(m) ==
    (IF m.kind = "QuantizedLinear" THEN DequantizeW(m.weight, m.bits) ELSE m.weight)
        + m.lscale * (m.lora_a * m.lora_b)

\* the weight of the layer LoRALinear.merge returns for a quantized layer: the
\* rebuilt nn.Linear keeps its freshly initialised weight `fresh`, the merged
\* weight is never assigned to it (lines 140-145)
QuantizedMergeSource(m, fresh) == fresh

\* LoRALinear.merge: the layer that replaces the adapter
Merge(m, fresh) ==
    LET unwrapped == [m EXCEPT !.lora = FALSE, !.lname = NoName, !.rank = 0,
                               !.in_dims = 0, !.out_dims = 0, !.lora_a = 0,
                               !.lora_b = 0, !.lscale = 0]
    IN  IF m.kind = "QuantizedLinear"
        THEN QuantizedFromLinear(
                NewLinear((m.cols * PackWidth) \div m.bits, m.out, m.bias,
                          QuantizedMergeSource(m, fresh)),
                m.group_size, m.bits)
        ELSE [unwrapped EXCEPT !.weight = MergedWeight(m)]

----------------------------------------------------------------------------
(* TrainableLoRA: the LoRA lifecycle                                       *)

\* the record of a call: the operation, the suffix of its target and whether the wrapper
\* was Adapted when it was called
Op(op, suffix) ==
    [op |-> op, suffix |-> suffix, adapted |-> _lora # None]

\* Module.freeze(): every parameter of the model becomes non-trainable
Freeze(tree) == [p \in DOMAIN tree |-> [tree[p] EXCEPT !.frozen = TRUE]]

\* re.search(r"\.attention\.(wq|wv)$", key)
MatchesQueryValue(key) ==
    /\ Len(key) >= 3
    /\ key[Len(key) - 1] = "attention"
    /\ key[Len(key)] \in {"wq", "wv"}

\* the keys init_lora selects (lines 216-227); under any other selector the
\* adapter list is left as it was
TargetKeys(tree, target_modules) ==
    IF target_modules = "all_linear"
    THEN {p \in DOMAIN tree : tree[p].kind \in {"Linear", "QuantizedLinear"}}
    ELSE {p \in DOMAIN tree : MatchesQueryValue(p)}

\* the structure of the tree that init_lora followed by merge is to restore
Structure(tree) ==
    [p \in DOMAIN tree |->
        [kind |-> tree[p].kind, name |-> tree[p].name, out |-> tree[p].out,
         cols |-> tree[p].cols, bias |-> tree[p].bias,
         group_size |-> tree[p].group_size, bits |-> tree[p].bits]]

\* len(self.model.layers)
LenLayers(tree) == Cardinality({p[2] : p \in {q \in DOMAIN tree : q[1] = "layers"}})

InitLoraGuardAlways == TRUE

\* the guard of init_lora (line 204)
InitLoraGuard == _lora = None

\* init_lora (lines 186-242)
InitLora(num_layers, target_modules, rank, alpha, scale) ==
    /\ lastOp' = Op("init_lora", "")
    /\ IF InitLoraGuard
       THEN LET frozen == Freeze(model)
                keys == TargetKeys(frozen, target_modules)
                selects == target_modules \in {"all_linear", "query_value"}
                raises == selects /\ \E p \in keys : FromLinearRaises(frozen[p])
            IN  /\ _lora' = <<[num_layers |-> IF num_layers < 0 THEN LenLayers(model)
                                              ELSE num_layers,
                               target_modules |-> target_modules,
                               rank |-> rank]>>
                /\ IF raises
                   THEN \* from_linear raised inside the list comprehension
                        /\ model' = frozen
                        /\ UNCHANGED <<_lora_modules, training, pre>>
                        /\ error' = "AttributeError"
                   ELSE /\ \E a0 \in FreshLoraA :
                            model' = [p \in DOMAIN frozen |->
                                        IF selects /\ p \in keys
                                        THEN FromLinear(frozen[p], rank, alpha, scale, a0)
                                        ELSE frozen[p]]
                        /\ _lora_modules' = IF selects THEN SelectKeys(PathOrder, keys)
                                            ELSE _lora_modules
                        /\ training' = TRUE
                        /\ pre' = <<Structure(model)>>
                        /\ error' = NoError
       ELSE /\ UNCHANGED <<model, _lora, _lora_modules, training, pre>>
            /\ error' = NoError
    /\ UNCHANGED <<_quantization, quant_excluded, files, updates, gen, trn>>

\* the state merge_and_unload_lora leaves (lines 257-261)
Unloaded == [lora |-> None, modules |-> <<>>, training |-> FALSE]

\* merge_and_unload_lora (lines 244-261)
MergeAndUnloadLora ==
    /\ lastOp' = Op("merge_and_unload_lora", "")
    /\ IF _lora # None
       THEN \E fresh \in [Range(_lora_modules) -> FreshWeights] :
               model' = [p \in DOMAIN model |->
                           IF p \in Range(_lora_modules)
                           THEN Merge(model[p], fresh[p])
                           ELSE model[p]]
       ELSE UNCHANGED model
    /\ _lora' = Unloaded.lora
    /\ _lora_modules' = Unloaded.modules
    /\ training' = Unloaded.training
    /\ error' = NoError
    /\ UNCHANGED <<_quantization, quant_excluded, files, pre, updates, gen, trn>>

\* Module.trainable_parameters(), flattened: the keys of the tensors that are
\* not frozen
TrainableParameters(tree) ==
    UNION {
        (IF tree[p].lora THEN {p \o <<"lora_a">>, p \o <<"lora_b">>} ELSE {})
        \cup
        (IF tree[p].frozen THEN {}
         ELSE LET base == IF tree[p].lora THEN p \o <<"linear">> ELSE p
              IN  {base \o <<"weight">>} \cup
                  (IF tree[p].bias THEN {base \o <<"bias">>} ELSE {}))
        : p \in DOMAIN tree }

\* optimizer.update(self.model, grad) (line 424): every trainable tensor moves
Update(m, d) ==
    [m EXCEPT !.lora_a = IF m.lora THEN @ + d ELSE @,
              !.lora_b = IF m.lora THEN @ + d ELSE @,
              !.weight = IF m.frozen THEN @ ELSE @ + d]

OptimizerUpdate ==
    /\ updates < MaxUpdates
    /\ \E d \in Deltas :
          model' = [p \in DOMAIN model |-> Update(model[p], d)]
    /\ updates' = updates + 1
    /\ lastOp' = Op("optimizer_update", "")
    /\ error' = NoError
    /\ UNCHANGED <<_lora, _lora_modules, training, _quantization, quant_excluded, files, pre,
                   gen, trn>>

SavePreconditionDropped == TRUE

\* the precondition of save_adapters and save_checkpoint (lines 271, 286)
SavePrecondition == _lora # None

\* the storage holds a bounded number of adapter files
HasRoom == SavePrecondition => Cardinality(files) < MaxFiles

\* a written adapter file: where, by which writer, holding which tensors
File(stem, suffix, format, keys) ==
    [stem |-> stem, suffix |-> suffix, format |-> format, keys |-> keys]

\* the caller-supplied adapter_path, less its suffix
AdapterStem == [base |-> "adapters", final |-> FALSE, step |-> 0]

\* the writer save_adapters uses for a path with this suffix (line 274):
\* mx.save_safetensors, whatever the suffix
AdapterWriter(suffix) == "safetensors"

\* save_adapters (lines 263-274)
SaveAdapters(suffix) ==
    /\ HasRoom
    /\ lastOp' = Op("save_adapters", suffix)
    /\ IF SavePrecondition
       THEN /\ files' = files \cup {File(AdapterStem, suffix, AdapterWriter(suffix),
                                         TrainableParameters(model))}
            /\ error' = NoError
       ELSE /\ UNCHANGED files
            /\ error' = "AssertionError"
    /\ UNCHANGED <<model, _lora, _lora_modules, training, _quantization, quant_excluded,
                   pre, updates, gen, trn>>

\* the file name save_checkpoint builds (lines 288-292)
Stem(base, final, step) == [base |-> base, final |-> final, step |-> step]
CheckpointStem(steps) ==
    IF steps >= 0 THEN Stem("ckpt", FALSE, steps) ELSE Stem("ckpt", TRUE, 0)
CheckpointSuffix(steps) == ".safetensors"

\* the dispatch of save_checkpoint on the suffix (lines 296-301)
CheckpointWriter(suffix) ==
    IF suffix = ".safetensors" THEN "safetensors"
    ELSE IF suffix = ".npz" THEN "npz"
    ELSE "ValueError"

\* save_checkpoint (lines 276-303)
SaveCheckpoint(steps) ==
    /\ HasRoom
    /\ lastOp' = Op("save_checkpoint", CheckpointSuffix(steps))
    /\ IF SavePrecondition
       THEN LET suffix == CheckpointSuffix(steps)
                writer == CheckpointWriter(suffix)
            IN  IF writer = "ValueError"
                THEN /\ UNCHANGED files
                     /\ error' = "ValueError"
                ELSE /\ files' = files \cup {File(CheckpointStem(steps), suffix, writer,
                                                  TrainableParameters(model))}
                     /\ error' = NoError
       ELSE /\ UNCHANGED files
            /\ error' = "AssertionError"
    /\ UNCHANGED <<model, _lora, _lora_modules, training, _quantization, quant_excluded,
                   pre, updates, gen, trn>>

----------------------------------------------------------------------------
(* The lifecycle specification                                             *)

Idle == [pc |-> "idle"]

TargetModules == {"all_linear", "query_value", "other"}
NumLayersArgs == {-1, 1}
Suffixes == {".safetensors", ".npz", ".bin"}
StepsArgs == {-1, 1}
Excluded == { {}, {P_out} }

\* TrainableLoRA.from_model(llm) of a freshly built model, either in full
\* precision or quantized by LLM.quantize(group_size, bits, excluded)
Init ==
    /\ \E dom \in TreeDomains :
          \/ /\ model = PlainTree(dom)
             /\ _quantization = None
             /\ quant_excluded = None
          \/ \E gs \in GroupSizes, bits \in Bits, ex \in Excluded \cap SUBSET dom :
                /\ model = UpdateNames(QuantizeModule(PlainTree(dom), gs, bits, ex))
                /\ _quantization = <<[group_size |-> gs, bits |-> bits]>>
                /\ quant_excluded = <<ex>>
    /\ _lora = None
    /\ _lora_modules = <<>>
    /\ training = FALSE
    /\ files = {}
    /\ lastOp = Op("from_model", "")
    /\ error = NoError
    /\ pre = <<>>
    /\ updates = 0
    /\ gen = Idle
    /\ trn = Idle

Next ==
    \/ \E n \in NumLayersArgs, t \in TargetModules :
          InitLora(n, t, DefaultRank, DefaultAlpha, DefaultScale)
    \/ MergeAndUnloadLora
    \/ OptimizerUpdate
    \/ \E suffix \in Suffixes : SaveAdapters(suffix)
    \/ \E steps \in StepsArgs : SaveCheckpoint(steps)

Spec == Init /\ [][Next]_vars

----------------------------------------------------------------------------
(* Properties of the lifecycle                                             *)

Adapted == _lora # None
SaveOps == {"save_adapters", "save_checkpoint"}

\* C1: init_lora called while Adapted changes neither the configuration, the
\* adapter list, the module tree nor the training mode, and
\* merge_and_unload_lora always leaves the wrapper Unadapted: configuration
\* cleared, adapter list empty, training mode off.
C1_TwoStateLifecycle ==
    [][ /\ (lastOp'.op = "init_lora" /\ Adapted)
            => UNCHANGED <<model, _lora, _lora_modules, training>>
        /\ lastOp'.op = "merge_and_unload_lora"
            => (_lora' = None /\ _lora_modules' = <<>> /\ training' = FALSE) ]_vars

\* init_lora has been called on a wrapper that was already Adapted
C1_Witness ==
    /\ lastOp.op = "init_lora"
    /\ lastOp.adapted
    /\ Adapted

\* C2: after init_lora followed by merge_and_unload_lora every path holds a
\* layer of the kind it held before adaptation, with the same module name,
\* weight shape and bias presence, and the LoRA state is cleared.
C2_RoundTripRestoresStructure ==
    (lastOp.op = "merge_and_unload_lora" /\ lastOp.adapted /\ pre # <<>>)
        => /\ Structure(model) = pre[1]
           /\ \A p \in DOMAIN model : ~model[p].lora
           /\ _lora = None /\ _lora_modules = <<>>

\* C6: merge on an adapter wrapping a quantized layer returns a quantized
\* layer with the original group size and bit width whose weight is the
\* quantization of dequantize(original) + scale * transpose(A @ B).
C6_QuantizedMergeKeepsMergedWeight ==
    [][ lastOp'.op = "merge_and_unload_lora"
        => \A p \in Range(_lora_modules) :
              model[p].kind = "QuantizedLinear"
              => /\ model'[p].kind = "QuantizedLinear"
                 /\ model'[p].group_size = model[p].group_size
                 /\ model'[p].bits = model[p].bits
                 /\ model'[p].weight = QuantizeW(MergedWeight(model[p]), model[p].bits) ]_vars

\* C7: save_adapters and save_checkpoint called on an Unadapted wrapper fail
\* with the precondition violation and write nothing; they succeed only on
\* an Adapted wrapper.
C7_SaveRequiresAdapted ==
    [][ lastOp'.op \in SaveOps
        => /\ ~Adapted => (error' = "AssertionError" /\ files' = files)
           /\ error' = NoError => Adapted ]_vars

\* a save was refused on a wrapper that had been adapted and merged again
C7_Witness ==
    /\ lastOp.op \in SaveOps
    /\ ~lastOp.adapted
    /\ pre # <<>>
    /\ error = "AssertionError"
    /\ files = {}

\* C8: an adapter save on an Adapted wrapper writes with the format its
\* target's extension selects, and for any other extension fails with the
\* unsupported-format error and writes nothing.
C8_SaveSelectsFormatByExtension ==
    [][ (lastOp'.op \in SaveOps /\ Adapted)
        => LET suffix == lastOp'.suffix
           IN  /\ suffix = ".safetensors"
                    => \E f \in files' : f.suffix = suffix /\ f.format = "safetensors"
               /\ suffix = ".npz"
                    => \E f \in files' : f.suffix = suffix /\ f.format = "npz"
               /\ suffix \notin {".safetensors", ".npz"}
                    => (error' = "ValueError" /\ files' = files) ]_vars

----------------------------------------------------------------------------
(* LLM.generate                                                            *)

\* tokenizer.eos_id and the other token ids the model can sample
EosId == 0
Vocabulary == {EosId, 1, 2}
Prompts == { <<1>>, <<1, 2>> }

RECURSIVE Concat(_)
Concat(chunks) ==
    IF chunks = <<>> THEN <<>> ELSE Head(chunks) \o Concat(Tail(chunks))

GenStopsNever(token) == FALSE

\* the stop test on a sampled token (line 178)
GenStops(token) == token = EosId

\* the flush test after a token was appended (line 182)
GenFlushes(tokens, flush) == (Len(tokens) % flush) = 0

AfterFlushKeep(tokens) == tokens

\* the accumulator after a chunk was yielded (line 191)
AfterFlush(tokens) == <<>>

\* the call generate(prompt, temp, num_tokens, flush) up to the loop (lines 151-176)
GenCall(prompt, num_tokens, flush) ==
    [pc |-> "loop", prompt |-> prompt, num_tokens |-> num_tokens, flush |-> flush,
     sampled |-> <<>>,      \* the tokens generate_step() has yielded
     taken |-> 0,           \* the items taken from range(num_tokens)
     tokens |-> <<>>,       \* the accumulator `tokens`
     chunks |-> <<>>,       \* the chunks yielded so far
     yielded_stats |-> <<>>,\* stats["num_tokens"] as seen at each yield
     stats_num_tokens |-> 0]

\* a yield of the accumulated tokens with the updated stats (lines 183-189, 193-199)
Yield(g, tokens) ==
    [g EXCEPT !.chunks = Append(@, tokens),
              !.stats_num_tokens = @ + Len(tokens),
              !.yielded_stats = Append(@, g.stats_num_tokens + Len(tokens))]

\* one round of the loop (lines 177-191): zip first takes the next token from
\* generate_step(), which runs the model and samples, and only then the next
\* item of range(num_tokens); the loop ends when the range is exhausted
GenIteration ==
    /\ gen.pc = "loop"
    /\ \E token \in Vocabulary :
          LET g1 == [gen EXCEPT !.sampled = Append(@, token)]
          IN  IF gen.taken = gen.num_tokens
              THEN gen' = [g1 EXCEPT !.pc = "final"]
              ELSE IF GenStops(token)
              THEN gen' = [g1 EXCEPT !.taken = @ + 1, !.pc = "final"]
              ELSE LET tokens == Append(gen.tokens, token)
                       g2 == [g1 EXCEPT !.taken = @ + 1]
                   IN  IF GenFlushes(tokens, gen.flush)
                       THEN gen' = [Yield(g2, tokens) EXCEPT !.tokens = AfterFlush(tokens)]
                       ELSE gen' = [g2 EXCEPT !.tokens = tokens]
    /\ UNCHANGED <<loraVars, trn>>

\* the yield after the loop (lines 193-199)
GenFinalYield ==
    /\ gen.pc = "final"
    /\ gen' = [Yield(gen, gen.tokens) EXCEPT !.pc = "done"]
    /\ UNCHANGED <<loraVars, trn>>

InitGen ==
    /\ model = PlainTree({P_wq, P_wv, P_out})
    /\ _quantization = None
    /\ quant_excluded = None
    /\ _lora = None
    /\ _lora_modules = <<>>
    /\ training = FALSE
    /\ files = {}
    /\ lastOp = [op |-> "generate", suffix |-> "", adapted |-> FALSE]
    /\ error = NoError
    /\ pre = <<>>
    /\ updates = 0
    /\ \E prompt \in Prompts, num_tokens \in 0..MaxNumTokens, flush \in 1..MaxFlush :
          gen = GenCall(prompt, num_tokens, flush)
    /\ trn = Idle

NextGen ==
    \/ GenIteration
    \/ GenFinalYield

SpecGen == InitGen /\ [][NextGen]_vars

\* the sampled tokens the loop accepted: those taken before the range ran out
\* and before the end-of-sequence token
RECURSIVE AcceptedPrefix(_, _)
AcceptedPrefix(sampled, limit) ==
    IF sampled = <<>> \/ limit = 0 \/ Head(sampled) = EosId THEN <<>>
    ELSE <<Head(sampled)>> \o AcceptedPrefix(Tail(sampled), limit - 1)

RECURSIVE SumLen(_)
SumLen(chunks) == IF chunks = <<>> THEN 0 ELSE Len(Head(chunks)) + SumLen(Tail(chunks))

\* C3: generate samples at most num_tokens tokens and the tokens of all
\* yielded chunks together never exceed num_tokens.
C3_SamplesAtMostMaxTokens ==
    /\ Len(gen.sampled) <= gen.num_tokens
    /\ SumLen(gen.chunks) <= gen.num_tokens

\* C4: every chunk but the last yield holds exactly `flush` tokens, the last
\* yield holds the tokens accumulated since the previous flush, the chunks
\* concatenated are the accepted sampled tokens in order, and at each yield
\* stats["num_tokens"] is the number of tokens in the chunks yielded so far.
C4_ChunksPartitionTokens ==
    /\ \A i \in 1..Len(gen.chunks) :
          /\ (i < Len(gen.chunks) \/ gen.pc # "done") => Len(gen.chunks[i]) = gen.flush
          /\ gen.yielded_stats[i] = SumLen(SubSeq(gen.chunks, 1, i))
    /\ Len(gen.yielded_stats) = Len(gen.chunks)
    /\ gen.pc # "done"
          => Concat(gen.chunks) \o gen.tokens = AcceptedPrefix(gen.sampled, gen.num_tokens)
    /\ gen.pc = "done"
          => /\ Concat(gen.chunks) = AcceptedPrefix(gen.sampled, gen.num_tokens)
             /\ Len(gen.chunks) >= 1
             /\ Len(gen.chunks[Len(gen.chunks)]) < gen.flush
             /\ gen.stats_num_tokens = Len(AcceptedPrefix(gen.sampled, gen.num_tokens))

\* generate finished after a full chunk and a shorter, non-empty last chunk
C4_Witness ==
    /\ gen.pc = "done"
    /\ Len(gen.chunks) = 2
    /\ Len(gen.chunks[1]) = gen.flush
    /\ gen.flush > 1
    /\ Len(gen.chunks[2]) = 1

\* C5: a sampled end-of-sequence token is the last token the model is asked
\* for, is in no yielded chunk and is not counted in stats["num_tokens"].
C5_StopsAtEos ==
    /\ \A i \in 1..Len(gen.sampled) : gen.sampled[i] = EosId => i = Len(gen.sampled)
    /\ \A i \in 1..Len(gen.chunks) : \A j \in 1..Len(gen.chunks[i]) : gen.chunks[i][j] # EosId
    /\ \A j \in 1..Len(gen.tokens) : gen.tokens[j] # EosId
    /\ gen.stats_num_tokens = SumLen(gen.chunks)
    /\ (gen.sampled # <<>> /\ gen.sampled[Len(gen.sampled)] = EosId) => gen.pc \in {"final", "done"}

\* generate finished because the end-of-sequence token was sampled within the
\* token limit, after tokens had been emitted
C5_Witness ==
    /\ gen.pc = "done"
    /\ gen.sampled # <<>>
    /\ gen.sampled[Len(gen.sampled)] = EosId
    /\ Len(gen.sampled) <= gen.num_tokens
    /\ Len(gen.sampled) >= 2
    /\ gen.stats_num_tokens = Len(gen.sampled) - 1

----------------------------------------------------------------------------
(* TrainableLoRA.train                                                     *)

Losses == {1, 2}
NaN == -1
DatasetSizes == {0, 4, 6}
BatchSizes == {2, 4}
ReportSteps == {1, 2}
ValidationSamples == {0, 4}
Callbacks == {"None", "callable"}
Messages == {"", "message"}

\* the number of iterations per epoch (lines 388-389)
Iterations(iterations, dataset_len, batch_size) ==
    IF iterations = 0 THEN dataset_len \div batch_size ELSE iterations

\* the number of validation batches (line 392)
ValidationBatches(validation_samples, batch_size) == validation_samples \div batch_size

\* the state of train(...) when the main loop starts (lines 387-409)
TrainCall(a) ==
    LET iters == Iterations(a.iterations, a.dataset_len, a.batch_size)
    IN  [pc |-> IF a.epochs = 0 \/ iters = 0 THEN "done" ELSE "step",
         batch_size |-> a.batch_size, epochs |-> a.epochs, iterations |-> iters,
         report_steps |-> a.report_steps, eval_steps |-> a.eval_steps,
         eval_callback |-> a.eval_callback,
         validation_samples |-> a.validation_samples,
         validation_batches |-> ValidationBatches(a.validation_samples, a.batch_size),
         epoch |-> 0, iter |-> 0,
         steps |-> 0,           \* optimizer updates applied
         losses |-> <<>>,       \* the list `losses` since the last report
         reports |-> <<>>,      \* the step numbers of the training-loss reports
         evals |-> <<>>,        \* the evaluate() calls made: step, batches, loss
         callbacks |-> <<>>,    \* the eval_callback calls made: step number, loss
         messages |-> 0,        \* callback messages written
         error |-> NoError]

\* the test for reporting the training loss (line 432)
ReportDue(n, report_steps) == (n + 1) % report_steps = 0

\* the test for evaluating on the validation set (line 444)
EvalDue(n, eval_steps) == n = 0 \/ (n + 1) % eval_steps = 0

\* evaluate(dataset_validation, batch_size, num_batches) (lines 337-347): the
\* mean over no batch at all is 0.0 / 0, not a number
Evaluate(num_batches, loss) == IF num_batches = 0 THEN NaN ELSE loss

\* the loop variables after this round of the nested loops (lines 408-410)
Advance(t) ==
    IF t.iter + 1 < t.iterations THEN [t EXCEPT !.iter = @ + 1]
    ELSE IF t.epoch + 1 < t.epochs THEN [t EXCEPT !.epoch = @ + 1, !.iter = 0]
    ELSE [t EXCEPT !.pc = "done"]

\* one round of the training loop (lines 410-455)
TrainStep ==
    /\ trn.pc = "step"
    /\ \E loss \in Losses, val \in Losses, msg \in Messages :
          LET n == trn.epoch * trn.iterations + trn.iter
              t1 == [trn EXCEPT !.steps = @ + 1, !.losses = Append(@, loss)]
              t2 == IF ReportDue(n, trn.report_steps)
                    THEN [t1 EXCEPT !.reports = Append(@, n + 1), !.losses = <<>>]
                    ELSE t1
          IN  IF EvalDue(n, trn.eval_steps)
              THEN LET val_loss == Evaluate(trn.validation_batches, val)
                       t3 == [t2 EXCEPT !.evals = Append(@,
                                 [n |-> n, num_batches |-> trn.validation_batches,
                                  loss |-> val_loss])]
                   IN  IF trn.eval_callback = "None"
                       THEN \* calling None raises TypeError (line 451)
                            trn' = [t3 EXCEPT !.pc = "raised", !.error = "TypeError"]
                       ELSE trn' = Advance(
                              [t3 EXCEPT !.callbacks = Append(@, [step |-> n + 1,
                                                                  loss |-> val_loss]),
                                         !.messages = IF msg # "" THEN @ + 1 ELSE @])
              ELSE trn' = Advance(t2)
    /\ UNCHANGED <<loraVars, gen>>

InitTrain ==
    /\ model = PlainTree({P_wq, P_wv, P_out})
    /\ _quantization = None
    /\ quant_excluded = None
    /\ _lora = None
    /\ _lora_modules = <<>>
    /\ training = FALSE
    /\ files = {}
    /\ lastOp = [op |-> "train", suffix |-> "", adapted |-> FALSE]
    /\ error = NoError
    /\ pre = <<>>
    /\ updates = 0
    /\ gen = Idle
    /\ \E dataset_len \in DatasetSizes, batch_size \in BatchSizes,
          epochs \in 0..MaxEpochs, iterations \in 0..MaxIterations,
          report_steps \in ReportSteps, eval_steps \in 1..MaxEvalSteps,
          eval_callback \in Callbacks, validation_samples \in ValidationSamples :
          trn = TrainCall([dataset_len |-> dataset_len, batch_size |-> batch_size,
                           epochs |-> epochs, iterations |-> iterations,
                           report_steps |-> report_steps, eval_steps |-> eval_steps,
                           eval_callback |-> eval_callback,
                           validation_samples |-> validation_samples])

NextTrain == TrainStep

SpecTrain == InitTrain /\ [][NextTrain]_vars

\* the 0-based steps below `steps` at which an evaluation is due
RECURSIVE DueSteps(_, _)
DueSteps(steps, eval_steps) ==
    IF steps = 0 THEN <<>>
    ELSE LET n == steps - 1
         IN  IF n = 0 \/ (n + 1) % eval_steps = 0
             THEN Append(DueSteps(n, eval_steps), n)
             ELSE DueSteps(n, eval_steps)

\* C9: train ends after exactly epochs * iterations optimizer updates, with
\* or without an eval_callback.
C9_TrainRunsAllSteps ==
    trn.pc # "step" => (trn.pc = "done" /\ trn.steps = trn.epochs * trn.iterations)

\* C10: between training steps the evaluations made are exactly those of
\* step 0 and of the steps whose 1-based number is a multiple of eval_steps,
\* each over floor(validation_samples / batch_size) batches, and each has
\* been followed by one eval_callback(step number, validation loss) call.
C10_EvalScheduleAndCallback ==
    /\ [i \in 1..Len(trn.evals) |-> trn.evals[i].n] = DueSteps(trn.steps, trn.eval_steps)
    /\ \A i \in 1..Len(trn.evals) :
          trn.evals[i].num_batches = trn.validation_samples \div trn.batch_size
    /\ Len(trn.callbacks) = Len(trn.evals)
    /\ \A i \in 1..Len(trn.callbacks) :
          trn.callbacks[i] = [step |-> trn.evals[i].n + 1, loss |-> trn.evals[i].loss]

----------------------------------------------------------------------------
(* LLM.quantize and LLM.dequantize                                         *)

\* the `excluded` arguments of quantize: the default None, or a list of names
ExcludedArgs == {None} \cup {<<ex>> : ex \in Excluded}

\* whether evaluating linear_class_predicate over the leaf modules raises:
\* with excluded = None the test `m.name not in excluded` (line 99) raises
\* TypeError on the first nn.Linear whose output width is not 8
PredicateRaises(tree, excluded_arg) ==
    /\ excluded_arg = None
    /\ \E p \in DOMAIN tree : tree[p].kind = "Linear" /\ tree[p].out # GateWidth

\* the names an `excluded` argument excludes
ExcludedNames(excluded_arg) == IF excluded_arg = None THEN {} ELSE excluded_arg[1]

\* quantize (lines 80-110): the descriptor is stored before the tree is rewritten
Quantize(group_size, bits, excluded_arg) ==
    /\ lastOp' = Op("quantize", "")
    /\ IF _quantization = None
       THEN /\ _quantization' = <<[group_size |-> group_size, bits |-> bits]>>
            /\ quant_excluded' = excluded_arg
            /\ IF PredicateRaises(model, excluded_arg)
               THEN /\ UNCHANGED model
                    /\ error' = "TypeError"
               ELSE /\ model' = UpdateNames(QuantizeModule(model, group_size, bits,
                                                           ExcludedNames(excluded_arg)))
                    /\ error' = NoError
       ELSE /\ UNCHANGED <<model, _quantization, quant_excluded>>
            /\ error' = NoError
    /\ UNCHANGED <<_lora, _lora_modules, training, files, pre, updates, gen, trn>>

\* the plain layer dequantize builds from a quantized one (lines 120-127): a
\* new nn.Linear, trainable, holding the dequantized weight and the old bias
DequantizedLinear(m) ==
    [m EXCEPT !.kind = "Linear", !.name = NoName,
              !.cols = (m.cols * PackWidth) \div m.bits,
              !.group_size = 0, !.bits = 0,
              !.weight = DequantizeW(m.weight, m.bits), !.frozen = FALSE]

\* what the call `module.weight()` (line 121) does on a quantized layer: the
\* attribute is the packed weight array (lora.py line 134 hands it to
\* mx.dequantize as it is), and calling it either raises TypeError or, with
\* a layer class whose weight is callable, returns the weight
WeightCallOutcomes == {"raises", "returns"}

\* dequantize (lines 112-136)
Dequantize ==
    /\ lastOp' = Op("dequantize", "")
    /\ IF _quantization # None
       THEN \E outcome \in WeightCallOutcomes :
              IF outcome = "raises" /\ \E p \in DOMAIN model : model[p].kind = "QuantizedLinear"
              THEN /\ UNCHANGED <<model, _quantization, quant_excluded>>
                   /\ error' = "TypeError"
              ELSE /\ model' = UpdateNames([p \in DOMAIN model |->
                                  IF model[p].kind = "QuantizedLinear"
                                  THEN DequantizedLinear(model[p])
                                  ELSE model[p]])
                   /\ _quantization' = None
                   /\ quant_excluded' = None
                   /\ error' = NoError
       ELSE /\ UNCHANGED <<model, _quantization, quant_excluded>>
            /\ error' = NoError
    /\ UNCHANGED <<_lora, _lora_modules, training, files, pre, updates, gen, trn>>

\* TrainableLoRA.from_model(llm) of a freshly built full-precision model
InitQuant ==
    /\ \E dom \in TreeDomains : model = PlainTree(dom)
    /\ _quantization = None
    /\ quant_excluded = None
    /\ _lora = None
    /\ _lora_modules = <<>>
    /\ training = FALSE
    /\ files = {}
    /\ lastOp = Op("from_model", "")
    /\ error = NoError
    /\ pre = <<>>
    /\ updates = 0
    /\ gen = Idle
    /\ trn = Idle

NextQuant ==
    \/ \E gs \in GroupSizes, bits \in Bits, ex \in ExcludedArgs : Quantize(gs, bits, ex)
    \/ Dequantize
    \/ \E t \in TargetModules : InitLora(-1, t, DefaultRank, DefaultAlpha, DefaultScale)
    \/ MergeAndUnloadLora
    \/ SaveAdapters(".safetensors")

SpecQuant == InitQuant /\ [][NextQuant]_vars

\* C11: the quantization descriptor agrees with the tree: without a
\* descriptor no sub-module is a quantized linear, and with one every linear
\* sub-module whose output width is not 8 and whose name is not excluded is
\* a quantized linear.
C11_DescriptorAgreesWithTree ==
    /\ _quantization = None
          => \A p \in DOMAIN model : model[p].kind # "QuantizedLinear"
    /\ _quantization # None
          => \A p \in DOMAIN model :
                (model[p].out # GateWidth /\ model[p].name \notin ExcludedNames(quant_excluded))
                    => model[p].kind = "QuantizedLinear"

\* the keys of the A and B factors of the current adapters
LoraFactorKeys ==
    UNION { {p \o <<"lora_a">>, p \o <<"lora_b">>} : p \in Range(_lora_modules) }

====
